---- MODULE Spec2Model ----
(***************************************************************************)
(* A model of geotiler: the Tile value object (tile.py), Place and its     *)
(* UTM zone discovery (place.py) and the grid sweep of GeoTiler            *)
(* (geotiler.py).                                                          *)
(*                                                                         *)
(* Python numbers.  A Python number is modelled exactly as a triple        *)
(*     <<hi, lo, half>>  standing for  hi * LimbBase + lo + half / 2       *)
(* with lo in 0..LimbBase-1 and half in {0,1} (floor representation, so    *)
(* -1.5 is <<-1, LimbBase-2, 1>>).  Two limbs are needed because a Python  *)
(* int is unbounded and a float has a 53 bit mantissa: float() of an       *)
(* integer above 2^53 rounds, and that is outside the range of a single    *)
(* model integer.                                                          *)
(***************************************************************************)
EXTENDS Integers, Sequences, FiniteSets, TLC

VARIABLES
    tileArgs,     \* the arguments of the last Tile(...) call
    tile,         \* the Tile it built
    tile2,        \* Tile.from_tile_id(tile.tile_id)
    ctor,         \* the arguments of the GeoTiler(...) / Place(...) call
    place,        \* the Place built, or the exception raised
    found,        \* find_intersecting_utm_zones results, by resolution
    pc,           \* position of the running tiles_generator
    args,         \* its tile_size and stride
    zoneOrder,    \* iteration order of the set of intersecting zones
    zonesLeft,    \* zones the for loop has not reached
    utm_zone,     \* zone being swept
    x, y,         \* loop variables of the sweep
    emitted,      \* tiles yielded by this invocation
    visited,      \* candidate origins visited by this invocation
    run,          \* number of invocations started
    prevEmitted   \* tiles yielded by the previous invocation

tileVars  == <<tileArgs, tile, tile2>>
placeVars == <<ctor, place, found>>
sweepVars == <<pc, args, zoneOrder, zonesLeft, utm_zone, x, y, emitted, visited, run,
               prevEmitted>>
vars      == <<tileVars, placeVars, sweepVars>>

Null == [null |-> TRUE]

LimbBits == 27
LimbBase == 2^LimbBits

\* IEEE double: 53 significant bits.
FloatMantissaBits == 53

NumOfInt(i) == <<i \div LimbBase, i % LimbBase, 0>>

\* h halves, i.e. the number h / 2.
NumOfHalves(h) == <<(h \div 2) \div LimbBase, (h \div 2) % LimbBase, h % 2>>

NumIsInt(a) == a[3] = 0

NumIsNeg(a) == a[1] < 0

NumAdd(a, b) ==
    LET h  == a[3] + b[3]
        lo == a[2] + b[2] + (h \div 2)
    IN  <<a[1] + b[1] + (lo \div LimbBase), lo % LimbBase, h % 2>>

NumNegate(a) ==
    LET i == IF a[3] = 0 THEN a ELSE NumAdd(<<a[1], a[2], 0>>, <<0, 1, 0>>)
    IN  IF i[2] = 0 THEN <<-i[1], 0, a[3]>>
        ELSE <<-i[1] - 1, LimbBase - i[2], a[3]>>

NumLess(a, b) ==
    \/ a[1] < b[1]
    \/ a[1] = b[1] /\ a[2] < b[2]
    \/ a[1] = b[1] /\ a[2] = b[2] /\ a[3] < b[3]

NumLeq(a, b) == a = b \/ NumLess(a, b)

\* The value of a small number that is an integer, as a model integer.
NumToInt(a) == a[1] * LimbBase + a[2]

\* int(s): truncation toward zero.
PyInt(a) ==
    IF a[3] = 0 THEN a
    ELSE IF NumIsNeg(a) THEN NumAdd(<<a[1], a[2], 0>>, <<0, 1, 0>>)
    ELSE <<a[1], a[2], 0>>

\* Bits of a non-negative integer above the 53 a double keeps, from its high limb.
RECURSIVE ExcessBits(_, _)
ExcessBits(hi, d) ==
    IF hi < 2^(FloatMantissaBits - LimbBits + d) THEN d ELSE ExcessBits(hi, d + 1)

\* Round a non-negative number to the nearest double, ties to even.
RoundMagnitude(a) ==
    LET d    == ExcessBits(a[1], 0)
        u    == 2^d
        q    == a[2] \div u
        r    == a[2] % u
    IN  IF d = 0
        THEN IF a[1] < 2^(FloatMantissaBits - LimbBits - 1) \/ a[3] = 0 THEN a
             ELSE IF a[2] % 2 = 1 THEN NumAdd(<<a[1], a[2], 0>>, <<0, 1, 0>>)
             ELSE <<a[1], a[2], 0>>
        ELSE LET up == \/ 2 * r > u
                       \/ 2 * r = u /\ a[3] = 1
                       \/ 2 * r = u /\ a[3] = 0 /\ q % 2 = 1
                 lo == (q + (IF up THEN 1 ELSE 0)) * u
             IN  <<a[1] + (lo \div LimbBase), lo % LimbBase, 0>>

\* float(v): the double nearest to the exact value.
PyFloat(a) ==
    IF NumIsNeg(a) THEN NumNegate(RoundMagnitude(NumNegate(a)))
    ELSE RoundMagnitude(a)

(***************************************************************************)
(* Decimal text.  A string is a sequence of one-character strings.         *)
(***************************************************************************)
DigitChars == <<"0", "1", "2", "3", "4", "5", "6", "7", "8", "9">>

DigitChar(d) == DigitChars[d + 1]

IsDigit(c) == \E d \in 0..9 : DigitChars[d + 1] = c

DigitVal(c) == CHOOSE d \in 0..9 : DigitChars[d + 1] = c

\* Decimal digits of a non-negative integer, most significant first: long division
\* by ten, limb by limb.  (The quotient is bound as a set element, hence computed
\* once.)
RECURSIVE Digits(_)
Digits(n) ==
    IF n[1] = 0 /\ n[2] < 10 THEN <<DigitChar(n[2])>>
    ELSE CHOOSE ds \in
             { Digits(<<q[1], q[2] \div 10, 0>>) \o <<DigitChar(q[2] % 10)>> :
                 q \in { <<n[1] \div 10, (n[1] % 10) * LimbBase + n[2]>> } } : TRUE

\* f"{i}" of an int.
PyStr(a) == IF NumIsNeg(a) THEN <<"-">> \o Digits(NumNegate(a)) ELSE Digits(a)

\* The exact value of a string of decimal digits.
RECURSIVE DigitsValue(_, _)
DigitsValue(s, acc) ==
    IF s = <<>> THEN acc
    ELSE LET lo == acc[2] * 10 + DigitVal(Head(s))
         IN  DigitsValue(Tail(s),
                 <<acc[1] * 10 + (lo \div LimbBase), lo % LimbBase, 0>>)

IsNumeric(s) ==
    LET body == IF s # <<>> /\ Head(s) = "-" THEN Tail(s) ELSE s
    IN  body # <<>> /\ \A i \in 1..Len(body) : IsDigit(body[i])

\* float(s) of a decimal integer literal: the double nearest to its value.
PyParseFloat(s) ==
    IF Head(s) = "-" THEN PyFloat(NumNegate(DigitsValue(Tail(s), <<0, 0, 0>>)))
    ELSE PyFloat(DigitsValue(s, <<0, 0, 0>>))

\* s.split(sep)
RECURSIVE SplitFrom(_, _, _)
SplitFrom(s, sep, cur) ==
    IF s = <<>> THEN <<cur>>
    ELSE IF Head(s) = sep THEN <<cur>> \o SplitFrom(Tail(s), sep, <<>>)
    ELSE SplitFrom(Tail(s), sep, Append(cur, Head(s)))

Split(s, sep) == SplitFrom(s, sep, <<>>)

(***************************************************************************)
(* Tile (tile.py).  A CRS is modelled by its EPSG code.  wgs_geometry, the *)
(* reprojection of utm_geometry, is not modelled: no property below reads  *)
(* it.                                                                     *)
(***************************************************************************)
\* shapely.geometry.box: the rectangle with these corners, as doubles.
box(minx, miny, maxx, maxy) ==
    [minx |-> PyFloat(minx), miny |-> PyFloat(miny),
     maxx |-> PyFloat(maxx), maxy |-> PyFloat(maxy)]

FormatTileId(epsg, start, size) ==
    PyStr(NumOfInt(epsg)) \o <<"_">> \o PyStr(start[1]) \o <<"_">> \o PyStr(start[2])
        \o <<"_">> \o PyStr(size[1]) \o <<"_">> \o PyStr(size[2])

\* Tile.__init__
Tile(utm_crs, utm_start, tile_size) ==
    LET start == <<PyInt(utm_start[1]), PyInt(utm_start[2])>>
        size  == <<PyInt(tile_size[1]), PyInt(tile_size[2])>>
    IN  [utm_crs      |-> utm_crs,
         utm_start    |-> start,
         tile_size    |-> size,
         utm_geometry |-> box(utm_start[1], utm_start[2],
                              NumAdd(utm_start[1], tile_size[1]),
                              NumAdd(utm_start[2], tile_size[2])),
         tile_id      |-> FormatTileId(utm_crs, start, size)]

\* Tile.from_tile_id; "ValueError" when the id is not five numeric fields.
from_tile_id(tile_id) ==
    LET f == Split(tile_id, "_")
    IN  IF Len(f) # 5 \/ \E i \in 1..Len(f) : ~IsNumeric(f[i]) THEN [error |-> "ValueError"]
        ELSE LET epsg_code == PyParseFloat(f[1])
                 x_start   == PyParseFloat(f[2])
                 y_start   == PyParseFloat(f[3])
                 width     == PyParseFloat(f[4])
                 height    == PyParseFloat(f[5])
             IN  Tile(NumToInt(PyInt(epsg_code)), <<x_start, y_start>>, <<width, height>>)

(***************************************************************************)
(* Geometry (shapely) and projection (pyproj), as far as the code uses     *)
(* them.  A WGS84 coordinate is an integer number of tenths of a degree,   *)
(* so that the default sampling resolution of 0.1 degree is one unit; a    *)
(* projected coordinate is an integer number of metres.  A geometry is a   *)
(* MultiPoint (a Point is a singleton) or an axis-aligned rectangular      *)
(* Polygon of positive area.  A caller's value is a geometry or a CRS      *)
(* identifier.                                                             *)
(***************************************************************************)
UnitsPerDegree == 10

Crs(epsg) == [kind |-> "CRS", epsg |-> epsg]

MultiPoint(pts) == [kind |-> "MultiPoint", pts |-> pts]

Polygon(minx, miny, maxx, maxy) ==
    [kind |-> "Polygon", minx |-> minx, miny |-> miny, maxx |-> maxx, maxy |-> maxy]

IsGeometry(v) == v.kind \in {"MultiPoint", "Polygon"}

SetMin(S) == CHOOSE m \in S : \A n \in S : m <= n

SetMax(S) == CHOOSE m \in S : \A n \in S : n <= m

\* geometry.bounds
bounds(g) ==
    IF g.kind = "Polygon"
    THEN [minx |-> g.minx, miny |-> g.miny, maxx |-> g.maxx, maxy |-> g.maxy]
    ELSE [minx |-> SetMin({p[1] : p \in g.pts}), miny |-> SetMin({p[2] : p \in g.pts}),
          maxx |-> SetMax({p[1] : p \in g.pts}), maxy |-> SetMax({p[2] : p \in g.pts})]

\* geometry.contains(Point(p)): the point lies in the interior of the geometry.
contains(g, p) ==
    IF g.kind = "Polygon"
    THEN g.minx < p[1] /\ p[1] < g.maxx /\ g.miny < p[2] /\ p[2] < g.maxy
    ELSE p \in g.pts

\* geometry.overlaps-like test: the geometry meets the open rectangle of a tile.
overlaps_interior(g, b) ==
    LET bx0 == IF NumLeq(b.minx, b.maxx) THEN b.minx ELSE b.maxx
        bx1 == IF NumLeq(b.minx, b.maxx) THEN b.maxx ELSE b.minx
        by0 == IF NumLeq(b.miny, b.maxy) THEN b.miny ELSE b.maxy
        by1 == IF NumLeq(b.miny, b.maxy) THEN b.maxy ELSE b.miny
    IN  IF g.kind = "Polygon"
        THEN /\ NumLess(NumOfInt(g.minx), bx1) /\ NumLess(bx0, NumOfInt(g.maxx))
             /\ NumLess(NumOfInt(g.miny), by1) /\ NumLess(by0, NumOfInt(g.maxy))
        ELSE \E p \in g.pts :
                /\ NumLess(bx0, NumOfInt(p[1])) /\ NumLess(NumOfInt(p[1]), bx1)
                /\ NumLess(by0, NumOfInt(p[2])) /\ NumLess(NumOfInt(p[2]), by1)

\* geometry.intersects(b), b the rectangle of a tile (coordinates are Python
\* numbers; box() of a negative size has its corners exchanged).
intersects(g, b) ==
    LET bx0 == IF NumLeq(b.minx, b.maxx) THEN b.minx ELSE b.maxx
        bx1 == IF NumLeq(b.minx, b.maxx) THEN b.maxx ELSE b.minx
        by0 == IF NumLeq(b.miny, b.maxy) THEN b.miny ELSE b.maxy
        by1 == IF NumLeq(b.miny, b.maxy) THEN b.maxy ELSE b.miny
    IN  IF g.kind = "Polygon"
        THEN /\ NumLeq(NumOfInt(g.minx), bx1) /\ NumLeq(bx0, NumOfInt(g.maxx))
             /\ NumLeq(NumOfInt(g.miny), by1) /\ NumLeq(by0, NumOfInt(g.maxy))
        ELSE \E p \in g.pts :
                /\ NumLeq(bx0, NumOfInt(p[1])) /\ NumLeq(NumOfInt(p[1]), bx1)
                /\ NumLeq(by0, NumOfInt(p[2])) /\ NumLeq(NumOfInt(p[2]), by1)

\* Metres per tenth of a degree in the linearised projection.
MetresPerUnit == 2

\* Transformer.from_crs(EPSG:4326, target, always_xy=True).transform of one
\* coordinate pair.  The transverse Mercator projection of a UTM zone is
\* linearised: MetresPerUnit metres per unit from the zone's central meridian
\* (6 * zone - 183 degrees) and from the equator, with a false easting of 4.5
\* degrees' worth and, in the southern zones, a false northing of 90 degrees' worth.
Project(target, p) ==
    IF target = 4326 THEN p
    ELSE LET zone == target % 100
             cm   == (6 * zone - 183) * UnitsPerDegree
             fe   == (9 * UnitsPerDegree) \div 2
             fn   == IF target \div 100 = 327 THEN 90 * UnitsPerDegree ELSE 0
         IN  <<MetresPerUnit * (p[1] - cm + fe), MetresPerUnit * (p[2] + fn)>>

\* shapely.ops.transform(transformer.transform, geometry)
transform(target, g) ==
    IF g.kind = "Polygon"
    THEN LET lo == Project(target, <<g.minx, g.miny>>)
             hi == Project(target, <<g.maxx, g.maxy>>)
         IN  Polygon(lo[1], lo[2], hi[1], hi[2])
    ELSE MultiPoint({Project(target, p) : p \in g.pts})

(***************************************************************************)
(* Place (place.py)                                                        *)
(***************************************************************************)
\* Place.transform_to_crs
transform_to_crs(self, target_crs) == transform(target_crs, self.input_geometry)

\* Place.__init__: CRS(input_crs) and shape(input_geometry) raise on a value of
\* the other sort.
Place(input_crs, input_geometry) ==
    IF input_crs.kind # "CRS" THEN [error |-> "CRSError"]
    ELSE IF ~IsGeometry(input_geometry) THEN [error |-> "AttributeError"]
    ELSE [input_crs      |-> input_crs.epsg,
          input_geometry |-> input_geometry,
          wgs_geometry   |-> transform(4326, input_geometry)]

IsPlace(p) == "input_geometry" \in DOMAIN p

\* Place._utm_epsg_for_point, x and y in tenths of a degree.
utm_epsg_for_point(px, py) ==
    LET zone_number == ((px + 180 * UnitsPerDegree) \div (6 * UnitsPerDegree)) + 1
    IN  IF py < 0 THEN 32700 + zone_number ELSE 32600 + zone_number

\* Place._generate_grid_points: the inner and the outer while loop.
RECURSIVE GridColumn(_, _, _, _, _)
GridColumn(g, px, py, maxy, resolution) ==
    IF py <= maxy
    THEN (IF contains(g, <<px, py>>) THEN <<(<<px, py>>)>> ELSE <<>>)
             \o GridColumn(g, px, py + resolution, maxy, resolution)
    ELSE <<>>

RECURSIVE GridRows(_, _, _, _)
GridRows(g, px, b, resolution) ==
    IF px <= b.maxx
    THEN GridColumn(g, px, b.miny, b.maxy, resolution)
             \o GridRows(g, px + resolution, b, resolution)
    ELSE <<>>

generate_grid_points(self, resolution) ==
    GridRows(self.wgs_geometry, bounds(self.wgs_geometry).minx,
             bounds(self.wgs_geometry), resolution)

\* Place.find_intersecting_utm_zones
find_intersecting_utm_zones(self, resolution) ==
    LET grid_points == generate_grid_points(self, resolution)
    IN  { utm_epsg_for_point(grid_points[i][1], grid_points[i][2]) :
            i \in 1..Len(grid_points) }

\* resolution=0.1, the default
DefaultResolution == UnitsPerDegree \div 10

(***************************************************************************)
(* GeoTiler (geotiler.py)                                                  *)
(***************************************************************************)
\* GeoTiler.__init__
GeoTiler(geometry, input_crs) == Place(geometry, input_crs)

\* a % b of Python, for b # 0: the result has the sign of b.
PyMod(a, b) == IF b > 0 THEN a % b ELSE -((-a) % (-b))

(***************************************************************************)
(* Tile: the specification of construction and reconstruction from an id.  *)
(***************************************************************************)
\* Largest magnitude, in halves, of the small coordinates tried.
MaxHalves == 3

BigInts ==
    LET m == 2^(FloatMantissaBits - LimbBits)
    IN  { <<m - 1, LimbBase - 1, 0>>, <<m, 0, 0>>, <<m, 1, 0>>, <<m, 2, 0>>, <<m, 3, 0>> }

TileCoords ==
    { NumOfHalves(h) : h \in (-MaxHalves)..MaxHalves }
        \cup { NumOfInt(500000), NumOfInt(6000000) }
        \cup BigInts \cup { NumNegate(b) : b \in BigInts }

TileSizes ==
    { NumOfHalves(h) : h \in 1..MaxHalves } \cup { NumOfInt(1000) }

TileEpsgs == { 32633, 32613 }

TileIdle ==
    /\ tileArgs = Null
    /\ tile = Null
    /\ tile2 = Null

\* Tile(epsg, (sx, sy), (w, h))
NewTile(e, sx, sy, w, h) ==
    /\ tileArgs = Null
    /\ tileArgs' = [epsg |-> e, utm_start |-> <<sx, sy>>, tile_size |-> <<w, h>>]
    /\ tile' = Tile(e, <<sx, sy>>, <<w, h>>)
    /\ tile2' = Null
    /\ UNCHANGED <<placeVars, sweepVars>>

\* Tile.from_tile_id(tile.tile_id)
FromTileId ==
    /\ tile # Null
    /\ tile2 = Null
    /\ tile2' = from_tile_id(tile.tile_id)
    /\ UNCHANGED <<tileArgs, tile, placeVars, sweepVars>>

PlaceIdle ==
    /\ ctor = Null
    /\ place = Null
    /\ found = {}

SweepIdle ==
    /\ pc = "idle"
    /\ args = Null
    /\ zoneOrder = <<>>
    /\ zonesLeft = <<>>
    /\ utm_zone = 0
    /\ x = 0
    /\ y = 0
    /\ emitted = <<>>
    /\ visited = 0
    /\ run = 0
    /\ prevEmitted = <<>>

InitTile == TileIdle /\ PlaceIdle /\ SweepIdle

NextTile ==
    \/ \E e \in TileEpsgs, sx \in TileCoords, sy \in TileCoords :
          \E w \in TileSizes, h \in TileSizes : NewTile(e, sx, sy, w, h)
    \/ FromTileId

SpecTile == InitTile /\ [][NextTile]_vars

(***************************************************************************)
(* Place: construction and zone discovery at several resolutions.          *)
(***************************************************************************)
\* Longitudes 5.8 .. 5.8 + LonSpan/10 degrees straddle the boundary of the
\* zones 31 and 32 at 6 degrees east.
LonBase == 58

LonSpan == 3

\* Resolutions tried, in tenths of a degree.
MaxResolution == 3

NearPoints == { <<LonBase, -1>>, <<LonBase, 0>>, <<LonBase + LonSpan, -1>>,
                <<LonBase + LonSpan, 0>> }

FarPoints == { <<-180 * UnitsPerDegree, 0>>, <<0, 0>>, <<180 * UnitsPerDegree, 0>>,
               <<180 * UnitsPerDegree, -1>> }

PlaceGeoms ==
    { MultiPoint({p}) : p \in NearPoints \cup FarPoints }
        \cup { MultiPoint({p, q}) : p \in NearPoints, q \in NearPoints }
        \cup { Polygon(LonBase, -1, LonBase + w, 1) : w \in 1..LonSpan }

\* Place(c, g), as the tests construct it
NewPlace(c, g) ==
    /\ ctor = Null
    /\ ctor' = [input_crs |-> c, geometry |-> g]
    /\ place' = Place(c, g)
    /\ UNCHANGED <<found, tileVars, sweepVars>>

\* place.find_intersecting_utm_zones(r)
FindZones(r) ==
    /\ IsPlace(place)
    /\ found' = found \cup { <<r, find_intersecting_utm_zones(place, r)>> }
    /\ UNCHANGED <<ctor, place, tileVars, sweepVars>>

InitPlace == TileIdle /\ PlaceIdle /\ SweepIdle

NextPlace ==
    \/ \E g \in PlaceGeoms : NewPlace(Crs(4326), g)
    \/ \E r \in 1..MaxResolution : FindZones(r)

SpecPlace == InitPlace /\ [][NextPlace]_vars

(***************************************************************************)
(* GeoTiler: construction, and tiles_generator run to exhaustion (as       *)
(* tiles_list does), one loop test per step.                               *)
(***************************************************************************)
\* tile_size and stride tried: -1 .. MaxTileSize and -1 .. MaxStride.
MaxTileSize == 4

MaxStride == 3

\* Invocations of the generator on one GeoTiler.
MaxRuns == 2

\* Iterations modelled of a loop that cannot end.
MaxSpin == 3

SweepPoints == { <<LonBase, -1>>, <<LonBase, 1>>, <<LonBase + LonSpan, 1>> }

SweepBoxes ==
    { Polygon(a, c, b, d) : a \in LonBase..(LonBase + LonSpan),
                            b \in LonBase..(LonBase + LonSpan),
                            c \in (-1)..2, d \in (-1)..2 }

SweepGeoms ==
    { MultiPoint(P) : P \in (SUBSET SweepPoints) \ {{}} }
        \cup { g \in SweepBoxes : g.minx < g.maxx /\ g.miny < g.maxy }

CallerValues == SweepGeoms \cup { Crs(4326) }

\* GeoTiler(a, b)
NewGeoTiler(a, b) ==
    /\ ctor = Null
    /\ ctor' = [geometry |-> a, input_crs |-> b]
    /\ place' = GeoTiler(a, b)
    /\ UNCHANGED <<found, tileVars, sweepVars>>

\* The orders in which a set can be iterated.
Orders(S) ==
    { f \in [1..Cardinality(S) -> S] : \A i, j \in 1..Cardinality(S) : f[i] = f[j] => i = j }

\* minx, miny, maxx, maxy = utm_geometry.bounds
ZoneBounds(crs) == bounds(transform_to_crs(place, crs))

\* A sweep that starts at the bounds themselves, without snapping.
Unsnapped(v, tile_size) == v

\* x_start = minx - (minx % tile_size), and the same for y
SnapDown(v, tile_size) == v - PyMod(v, tile_size)

\* y += stride, x += stride
Advance(v, stride) == v + stride

\* A loop test that also admits the upper bound.
InSweepClosed(v, maxv) == v <= maxv

\* while x < maxx, while y < maxy
InSweep(v, maxv) == v < maxv

\* tiles_list(ts, st): the generator starts; a later invocation repeats the
\* arguments, and iterates a set of the same zones in the same order.
Invoke(ts, st) ==
    /\ pc \in {"idle", "done"}
    /\ IsPlace(place)
    /\ run < MaxRuns
    /\ run > 0 => args = [tile_size |-> ts, stride |-> st]
    /\ \E ord \in Orders(find_intersecting_utm_zones(place, DefaultResolution)) :
          /\ run > 0 => ord = zoneOrder
          /\ zoneOrder' = ord
          /\ zonesLeft' = ord
    /\ args' = [tile_size |-> ts, stride |-> st]
    /\ pc' = "for"
    /\ prevEmitted' = emitted
    /\ emitted' = <<>>
    /\ visited' = 0
    /\ run' = run + 1
    /\ utm_zone' = 0
    /\ x' = 0
    /\ y' = 0
    /\ UNCHANGED <<tileVars, placeVars>>

\* for utm_crs in intersecting_zones: exhausted
ForDone ==
    /\ pc = "for"
    /\ zonesLeft = <<>>
    /\ pc' = "done"
    /\ UNCHANGED <<args, zoneOrder, zonesLeft, utm_zone, x, y, emitted, visited, run,
                   prevEmitted, tileVars, placeVars>>

\* for utm_crs in intersecting_zones: the next zone, up to x = x_start
ForZone ==
    /\ pc = "for"
    /\ zonesLeft # <<>>
    /\ args.tile_size # 0
    /\ utm_zone' = Head(zonesLeft)
    /\ zonesLeft' = Tail(zonesLeft)
    /\ x' = SnapDown(ZoneBounds(Head(zonesLeft)).minx, args.tile_size)
    /\ pc' = "whilex"
    /\ UNCHANGED <<args, zoneOrder, y, emitted, visited, run, prevEmitted, tileVars,
                   placeVars>>

\* minx % tile_size with tile_size = 0 raises ZeroDivisionError
ForZoneError ==
    /\ pc = "for"
    /\ zonesLeft # <<>>
    /\ args.tile_size = 0
    /\ utm_zone' = Head(zonesLeft)
    /\ zonesLeft' = Tail(zonesLeft)
    /\ pc' = "error"
    /\ UNCHANGED <<args, zoneOrder, x, y, emitted, visited, run, prevEmitted, tileVars,
                   placeVars>>

\* while x < maxx: y = y_start
WhileX ==
    /\ pc = "whilex"
    /\ IF InSweep(x, ZoneBounds(utm_zone).maxx)
       THEN /\ y' = SnapDown(ZoneBounds(utm_zone).miny, args.tile_size)
            /\ pc' = "whiley"
       ELSE /\ y' = y
            /\ pc' = "for"
    /\ UNCHANGED <<args, zoneOrder, zonesLeft, utm_zone, x, emitted, visited, run,
                   prevEmitted, tileVars, placeVars>>

\* while y < maxy: the candidate tile at (x, y); then x += stride
WhileY ==
    /\ pc = "whiley"
    /\ IF InSweep(y, ZoneBounds(utm_zone).maxy)
       THEN \E t \in { Tile(utm_zone, <<NumOfInt(x), NumOfInt(y)>>,
                             <<NumOfInt(args.tile_size), NumOfInt(args.tile_size)>>) },
               utm_geometry \in { transform_to_crs(place, utm_zone) } :
                /\ args.stride <= 0 => visited < MaxSpin
                /\ emitted' = IF intersects(utm_geometry, t.utm_geometry)
                              THEN Append(emitted, t) ELSE emitted
                /\ visited' = visited + 1
                /\ y' = Advance(y, args.stride)
                /\ UNCHANGED <<x, pc>>
       ELSE /\ args.stride <= 0 =>
                  SnapDown(ZoneBounds(utm_zone).minx, args.tile_size) - x < MaxSpin
            /\ x' = Advance(x, args.stride)
            /\ pc' = "whilex"
            /\ UNCHANGED <<y, emitted, visited>>
    /\ UNCHANGED <<args, zoneOrder, zonesLeft, utm_zone, run, prevEmitted, tileVars,
                   placeVars>>

SweepStep == ForDone \/ ForZone \/ ForZoneError \/ WhileX \/ WhileY

InitSweep == TileIdle /\ PlaceIdle /\ SweepIdle

NextSweep ==
    \/ \E a \in CallerValues, b \in CallerValues : NewGeoTiler(a, b)
    \/ \E ts \in (-1)..MaxTileSize, st \in (-1)..MaxStride : Invoke(ts, st)
    \/ SweepStep

SpecSweep == InitSweep /\ [][NextSweep]_vars

\* list(...) pulls from the generator until it is exhausted.
LiveSweep == SpecSweep /\ WF_vars(SweepStep)

(***************************************************************************)
(* Properties                                                              *)
(***************************************************************************)
ValidArgs == args # Null /\ args.tile_size > 0 /\ args.stride > 0

\* The origin of an emitted tile, as it appears in its tile_id.
Origin(t) == <<NumToInt(t.utm_start[1]), NumToInt(t.utm_start[2])>>

EmittedIn(Z) == { i \in 1..Len(emitted) : emitted[i].utm_crs = Z }

EmittedOrigins(Z) == { Origin(emitted[i]) : i \in EmittedIn(Z) }

\* The closed square [px, px + T] x [py, py + T] and the geometry g share a point.
ClosedMeets(g, px, py, T) ==
    IF g.kind = "Polygon"
    THEN g.minx <= px + T /\ px <= g.maxx /\ g.miny <= py + T /\ py <= g.maxy
    ELSE \E p \in g.pts : px <= p[1] /\ p[1] <= px + T /\ py <= p[2] /\ p[2] <= py + T

\* The geometry of the place in zone Z, and the origin of the sweep there.
ZoneGeometry(Z) == transform(Z, place.input_geometry)

OriginX(Z) == bounds(ZoneGeometry(Z)).minx - (bounds(ZoneGeometry(Z)).minx % args.tile_size)

OriginY(Z) == bounds(ZoneGeometry(Z)).miny - (bounds(ZoneGeometry(Z)).miny % args.tile_size)

\* Grid indices around the bounding box: from one tile below the origin to one
\* stride beyond the upper edge.
IndicesX(Z) ==
    (-(args.tile_size + 1))..(((bounds(ZoneGeometry(Z)).maxx - OriginX(Z)) \div args.stride) + 1)

IndicesY(Z) ==
    (-(args.tile_size + 1))..(((bounds(ZoneGeometry(Z)).maxy - OriginY(Z)) \div args.stride) + 1)

Zones == { zoneOrder[i] : i \in 1..Len(zoneOrder) }

\* The origins the sweep of zone Z visits.
Candidates(Z) ==
    { c \in { <<OriginX(Z) + i * args.stride, OriginY(Z) + j * args.stride>> :
                i \in { k \in IndicesX(Z) : k >= 0 }, j \in { k \in IndicesY(Z) : k >= 0 } } :
        c[1] < bounds(ZoneGeometry(Z)).maxx /\ c[2] < bounds(ZoneGeometry(Z)).maxy }

\* C1: GeoTiler(geometry, input_crs) with a valid geometry and a valid CRS builds a
\* Place whose input_geometry is that geometry and whose input_crs is that CRS.
C1_ConstructionKeepsArguments ==
    (ctor # Null /\ "geometry" \in DOMAIN ctor /\ IsGeometry(ctor.geometry)
        /\ ctor.input_crs.kind = "CRS")
    => /\ IsPlace(place)
       /\ place.input_geometry = ctor.geometry
       /\ place.input_crs = ctor.input_crs.epsg

IntegerArgs ==
    \A i \in 1..2 : NumIsInt(tileArgs.utm_start[i]) /\ NumIsInt(tileArgs.tile_size[i])

\* C2: for integer-valued inputs with positive sizes, the tile rebuilt from a
\* tile's id has the same tile_id, utm_start and tile_size.
C2_RoundTrip ==
    (tile2 # Null /\ IntegerArgs)
    => /\ "tile_id" \in DOMAIN tile2
       /\ tile2.tile_id = tile.tile_id
       /\ tile2.utm_start = tile.utm_start
       /\ tile2.tile_size = tile.tile_size

\* C3: a tile's utm_geometry is the rectangle of the integer-coerced utm_start and
\* tile_size of its tile_id, so tiles with equal ids have equal geometries.
C3_GeometryOfTheId ==
    tile # Null
    => tile.utm_geometry =
          box(tile.utm_start[1], tile.utm_start[2],
              NumAdd(tile.utm_start[1], tile.tile_size[1]),
              NumAdd(tile.utm_start[2], tile.tile_size[2]))

\* C4, as stated: of the grid of tile_size and stride anchored at the snapped
\* origin, a tile is emitted if and only if its closed rectangle meets the geometry,
\* the tiles touching the bounding box at x = maxx or y = maxy, or from below,
\* included.
C4_EveryTouchingGridTile ==
    (pc = "done" /\ ValidArgs)
    => \A Z \in Zones : \A i \in IndicesX(Z), j \in IndicesY(Z) :
          LET px == OriginX(Z) + i * args.stride
              py == OriginY(Z) + j * args.stride
          IN  <<px, py>> \in EmittedOrigins(Z)
                  <=> ClosedMeets(ZoneGeometry(Z), px, py, args.tile_size)

\* C4, amended: of the candidates the sweep visits (origins x_start + i * stride <
\* maxx and y_start + j * stride < maxy, i, j >= 0), a tile is emitted, once, if and
\* only if its closed rectangle meets the geometry; no other tile is emitted.
C4_FilterOfVisitedCandidates ==
    (pc = "done" /\ ValidArgs)
    => \A Z \in Zones :
          /\ EmittedOrigins(Z) =
                { c \in Candidates(Z) :
                    ClosedMeets(ZoneGeometry(Z), c[1], c[2], args.tile_size) }
          /\ Cardinality(EmittedIn(Z)) = Cardinality(EmittedOrigins(Z))

\* The geometry meets the closed square only on the square's boundary.
TouchesOnly(g, px, py, T) ==
    /\ ClosedMeets(g, px, py, T)
    /\ IF g.kind = "Polygon"
       THEN g.minx = px + T \/ px = g.maxx \/ g.miny = py + T \/ py = g.maxy
       ELSE \A p \in g.pts :
               (px <= p[1] /\ p[1] <= px + T /\ py <= p[2] /\ p[2] <= py + T)
               => (p[1] = px \/ p[1] = px + T \/ p[2] = py \/ p[2] = py + T)

\* A finished sweep that emitted a tile the geometry only touches and left out a
\* visited candidate.
C4_Witness ==
    /\ pc = "done"
    /\ ValidArgs
    /\ \E Z \in Zones :
          /\ \E c \in EmittedOrigins(Z) :
                TouchesOnly(ZoneGeometry(Z), c[1], c[2], args.tile_size)
          /\ Candidates(Z) \ EmittedOrigins(Z) # {}

\* The open rectangle lies in one longitude band and one hemisphere.
InOneZone(g) ==
    /\ utm_epsg_for_point(g.minx, g.miny) = utm_epsg_for_point(g.maxx - 1, g.miny)
    /\ utm_epsg_for_point(g.minx, g.miny) = utm_epsg_for_point(g.minx, g.maxy - 1)

\* The S-by-S cells of the grid of multiples of S that overlap the rectangle b.
OverlappingCells(b, S) ==
    { c \in { <<i * S, j * S>> : i \in ((b.minx \div S) - 1)..((b.maxx \div S) + 1),
                                 j \in ((b.miny \div S) - 1)..((b.maxy \div S) + 1) } :
        c[1] < b.maxx /\ c[1] + S > b.minx /\ c[2] < b.maxy /\ c[2] + S > b.miny }

\* C5: for a rectangle in one UTM zone and tile_size = stride = S > 0, the tiles
\* emitted are, once each, the cells of the grid of multiples of S that overlap the
\* rectangle's bounding box.
C5_GridCoverage ==
    (pc = "done" /\ ValidArgs /\ args.tile_size = args.stride
        /\ place.input_geometry.kind = "Polygon" /\ InOneZone(place.input_geometry))
    => LET Z     == utm_epsg_for_point(place.input_geometry.minx, place.input_geometry.miny)
           cells == OverlappingCells(bounds(ZoneGeometry(Z)), args.tile_size)
       IN  /\ Len(emitted) = Cardinality(cells)
           /\ { Origin(emitted[i]) : i \in 1..Len(emitted) } = cells
           /\ \A i \in 1..Len(emitted) : emitted[i].utm_crs = Z

\* C6, as stated: whatever the geometry's bounds, the origins of the emitted tiles
\* lie on the one lattice of step stride anchored at the UTM origin (0, 0).
C6_OriginsOnTheStrideLattice ==
    ValidArgs
    => \A i \in 1..Len(emitted) :
          /\ Origin(emitted[i])[1] % args.stride = 0
          /\ Origin(emitted[i])[2] % args.stride = 0

\* C6, amended: the origins of the emitted tiles lie on the lattice of step stride
\* anchored at the sweep's origin, the multiple of tile_size below the geometry's own
\* minx and miny; they are multiples of stride when stride divides tile_size.
C6_OriginsOnTheSnappedLattice ==
    ValidArgs
    => \A i \in 1..Len(emitted) :
          LET Z == emitted[i].utm_crs
              o == Origin(emitted[i])
          IN  /\ o[1] >= OriginX(Z) /\ (o[1] - OriginX(Z)) % args.stride = 0
              /\ o[2] >= OriginY(Z) /\ (o[2] - OriginY(Z)) % args.stride = 0
              /\ args.tile_size % args.stride = 0
                    => o[1] % args.stride = 0 /\ o[2] % args.stride = 0

\* Overlapping tiles (stride a proper divisor of tile_size) with an emitted origin
\* that is a multiple of stride and not of tile_size.
C6_Witness ==
    /\ ValidArgs
    /\ args.stride > 1
    /\ args.tile_size # args.stride
    /\ args.tile_size % args.stride = 0
    /\ \E i \in 1..Len(emitted) : Origin(emitted[i])[1] % args.tile_size # 0

\* C7: a tile_size <= 0 or a stride <= 0 is rejected with an error before the sweep
\* starts: no zone is swept, no tile is emitted, the invocation does not complete.
C7_InvalidArgumentsRejected ==
    (args # Null /\ ~ValidArgs)
    => pc \notin {"whilex", "whiley", "done"} /\ emitted = <<>>

\* The candidates of all the zones of the place.
AllCandidates == UNION { { <<Z, c>> : c \in Candidates(Z) } : Z \in Zones }

TileIds(tiles) == [i \in 1..Len(tiles) |-> tiles[i].tile_id]

\* C8: with positive tile_size and stride every started invocation is exhausted,
\* having visited exactly the candidates x_start + i * stride < maxx,
\* y_start + j * stride < maxy of each zone, and a second invocation yields the
\* same sequence of tile ids.
C8_FiniteRestartableSweep ==
    /\ ((ValidArgs /\ pc = "for") ~> (pc = "done"))
    /\ []((ValidArgs /\ pc = "done") => visited = Cardinality(AllCandidates))
    /\ []((ValidArgs /\ pc = "done" /\ run >= 2) => TileIds(emitted) = TileIds(prevEmitted))

\* A second invocation, over two zones, finished, having emitted some candidates
\* and filtered others.
C8_Witness ==
    /\ pc = "done"
    /\ run = 2
    /\ ValidArgs
    /\ Len(zoneOrder) >= 2
    /\ Len(emitted) >= 2
    /\ visited > Len(emitted)

\* C9: a zone found at a resolution is found at every finer resolution.
C9_FinerResolutionFindsMore ==
    \A f1 \in found, f2 \in found : f2[1] < f1[1] => f1[2] \subseteq f2[2]

UtmEpsgCodes == (32601..32660) \cup (32701..32760)

\* C10: every zone returned is one of the 120 UTM zones, and the point (0, 0) yields
\* exactly EPSG:32631.
C10_ZonesAreUtmZones ==
    \A f \in found :
        /\ f[2] \subseteq UtmEpsgCodes
        /\ place.input_geometry = MultiPoint({<<0, 0>>}) => f[2] = {32631}

====
